---- MODULE Spec2Model ----
(***************************************************************************)
(* A model of fireslurm: the run orchestrator (fireslurm/run.py: run,      *)
(* infrasetup, flash_fpga, overlay_disk_image, run_simulation) and the     *)
(* job submission (fireslurm/batch.py: submit_slurm_job).                  *)
(*                                                                         *)
(* Strings are sequences of tokens: an environment value such as           *)
(* "/cfg:/opt/lib" is <<"/cfg", ":", "/opt/lib">>, a command line is the   *)
(* sequence of its arguments.  Every external program that is really       *)
(* started is appended to `started`; every step the orchestrator takes is  *)
(* appended to `trace`.                                                    *)
(*                                                                         *)
(* The job script (batch.py: build_job_script_contents) and the output of  *)
(* the simulation (run.py: the read loop of run_simulation) are modelled   *)
(* character by character.                                                 *)
(***************************************************************************)
EXTENDS Integers, Sequences, FiniteSets, TLC

VARIABLES
    pc,                 \* position of the orchestrator in run()
    exc,                \* the exception propagating / raised to the caller
    dry_run,            \* utils.dry_run
    cmd,                \* the command to run inside FireSim ("" = interactive)
    bitstream_exists,   \* sim_config/xilinx_vcu118/firesim.bit exists
    overlay_has_sh,     \* the overlay tree holds a firesim.sh of its own
    args_valid,         \* what validate_args answers for the run's inputs
    sigint,             \* disposition of SIGINT: "default" or "ignored"
    intr_key,           \* the terminal's interrupt key
    old_intr_key,       \* the key captured by change_sigint_key
    ld_path,            \* os.environ["LD_LIBRARY_PATH"]: [set, val]
    old_ld_library_path,\* the local of run_simulation
    mounted,            \* the simulation image is mounted on ./mountpoint
    img_sh,             \* what /firesim.sh on the image is
    log_dirs,           \* number of timestamped run directories in log_dir
    latest,             \* what log_dir/latest points at (0 = absent)
    reads,              \* chunks read from the pseudo-terminal so far
    returncode,         \* proc.returncode of the simulation (-1 = not waited)
    pre,                \* the process state immediately before Launching
    started,            \* external programs really started, in order
    trace,              \* steps taken, in order
    s_pc,               \* position in submit_slurm_job
    verbosity,          \* config.verbosity
    sbatch_cmd,         \* the submission command being built
    s_run,              \* submission commands really executed, in order
    proc,               \* the CompletedProcess of sbatch: [rc, out, err]
    job,                \* the JobInfo returned: [slurm_job_id, run_id]
    s_exc,              \* the exception submit_slurm_job raised
    s_exc_data,         \* what that exception carries: [output, stderr]
    c_pc,               \* where the construction of a configuration stands
    c_cls,              \* the configuration class being constructed
    c_in,               \* the keyword arguments given to the constructor
    c_obj,              \* the configuration record constructed
    c_conv,             \* the record a conversion of c_obj returned
    c_back,             \* the record converting c_conv back returned
    c_err,              \* the exception construction or conversion raised
    uuids,              \* how many run ids _run_uuid has handed out
    root_abs,           \* the log root was given as an absolute path
    root_exists,        \* the log root exists
    now,                \* datetime.now(), in whole seconds
    dirs,               \* the timestamped run directories under the log root
    link,               \* the target stored in the symlink log root/latest
    files,              \* the uartlog files: <<directory, run that wrote it>>
    r_pc,               \* per run: where its use of the log root stands
    r_made,             \* per run: current_run_log, the directory it made
    r_ret,              \* per run: the path update_log_files returned
    r_used,             \* per run: the directory its uartlog was opened in
    r_exc,              \* per run: the exception raised
    r_order,            \* the runs in the order they called update_log_files
    b_pc,               \* where the life of the job script stands
    b_cfg,              \* the BatchConfig the job script is built from
    b_script,           \* the python3 command of the job script, in characters
    b_ns,               \* the argparse Namespace fireslurm.py parsed
    b_run,              \* the RunConfig direct_run hands to the orchestrator
    u_pc,               \* where the copying of the simulation's output stands
    u_stream,           \* everything the simulation writes to the terminal
    u_rest,             \* the part of u_stream not read yet
    u_term,             \* the text printed to the user's terminal
    u_log               \* the text written to uartlog

cfg_vars == <<c_pc, c_cls, c_in, c_obj, c_conv, c_back, c_err, uuids>>
rot_vars == <<root_abs, root_exists, now, dirs, link, files, r_pc, r_made, r_ret,
              r_used, r_exc, r_order>>
scr_vars == <<b_pc, b_cfg, b_script, b_ns, b_run>>
uart_vars == <<u_pc, u_stream, u_rest, u_term, u_log>>
inputs == <<dry_run, cmd, bitstream_exists, overlay_has_sh, args_valid, cfg_vars,
            rot_vars, scr_vars, uart_vars>>
term == <<intr_key, old_intr_key>>
env == <<ld_path, old_ld_library_path>>
image == <<mounted, img_sh>>
logs == <<log_dirs, latest>>
sim == <<reads, returncode, pre>>
sub_vars == <<s_pc, verbosity, sbatch_cmd, s_run, proc, job, s_exc, s_exc_data>>
job_vars == <<pc, exc, dry_run, cmd, bitstream_exists, overlay_has_sh,
              args_valid, sigint,
              term, env, image, logs, sim, started, trace, sub_vars, rot_vars,
              scr_vars, uart_vars>>
rest_vars == <<pc, exc, dry_run, cmd, bitstream_exists, overlay_has_sh,
               args_valid, sigint,
               term, env, image, logs, sim, started, trace, sub_vars, cfg_vars,
               scr_vars, uart_vars>>
vars == <<pc, exc, inputs, sigint, term, env, image, logs, sim, started, trace,
          sub_vars>>
\* everything but the job script and the copied output
prog_vars == <<pc, exc, dry_run, cmd, bitstream_exists, overlay_has_sh,
               args_valid, sigint, term, env, image, logs, sim, started, trace,
               sub_vars, cfg_vars, rot_vars>>

\* ------------------------------------------------------------------ bounds

\* The pseudo-terminal yields at most this many chunks before it closes.
MaxReads == 2
\* Largest verbosity level (-v given this many times).
MaxVerbosity == 2
\* Longest output of sbatch, in tokens.
MaxOut == 3
\* Longest command given to a batch job, in characters.
MaxCmd == 3
\* Longest output of the simulation, in characters.
MaxStream == 3

\* ------------------------------------------------------------ environment

Unset == [set |-> FALSE, val |-> <<>>]
SetTo(v) == [set |-> TRUE, val |-> v]

\* The states LD_LIBRARY_PATH can be in when the orchestrator starts.
LdPathInputs ==
    {Unset, SetTo(<<>>), SetTo(<<"/opt/lib">>),
     SetTo(<<"/opt/lib", ":", "/usr/lib">>)}

\* os.environ.get(env_var, "")
environ_get(e) == IF e.set THEN e.val ELSE <<>>

\* sep.join(vals_to_add) for the one-element list run_simulation passes
join1(v) == <<v>>

\* utils.extend_path: (old, new) of the variable
extend_path_old(e) == environ_get(e)
extend_path_new(e, v) == SetTo(join1(v) \o <<":">> \o environ_get(e))

SimConfigDir == "/cfg"
ConventionalKey == "^c"
FireSimKey == "^]"

\* ------------------------------------------------- scoped resources (utils)

\* utils.block_sigint: SIGINT is ignored inside the block and handled by
\* default again when the block is left, by return or by exception.
block_sigint_enter == "ignored"
block_sigint_exit == "default"

\* utils.change_sigint_key: the key is remapped inside the block and the
\* captured key is put back when the block is left.
change_sigint_key_enter == FireSimKey
change_sigint_key_exit(captured) == captured

\* utils.mount_img: the image is mounted inside the block and unmounted when
\* the block is left.
mount_img_enter == TRUE
mount_img_exit == FALSE

\* --------------------------------------------------------- control flow

\* Where an exception raised inside `with utils.block_sigint():` goes:
\* through the block's exit.
InfraUnwind_bare == "failed"
InfraUnwind == "infra_exit"

\* Where an exception raised inside `with utils.mount_img(...)` of
\* overlay_disk_image goes: through the block's exit.
OverlayUnwind_bare == InfraUnwind
OverlayUnwind == "overlay_umount"

\* Where an exception raised inside `with utils.change_sigint_key(...)` of
\* run_simulation goes: through the block's exit, and so past the assignment
\* that restores LD_LIBRARY_PATH, which is the block's last statement.
SimUnwind == "sim_key_exit"

\* `if not utils.dry_run:` in flash_fpga
ShouldExec_always(dry) == TRUE
ShouldExec(dry) == ~dry

\* `if not bitstream.exists(): raise FileNotFoundError`
BitstreamMissing_unchecked(exists) == FALSE
BitstreamMissing(exists) == ~exists

\* interactive_run = cmd is None or cmd == ""
interactive_run(c) == c = ""

Step(e) == trace' = Append(trace, e)
Exec(p) == started' = Append(started, p)

\* ----------------------------------------------------------------- run()

\* run(): interactive run, `with utils.mount_img(...)` entered
run_interactive_mount ==
    /\ pc = "start" /\ interactive_run(cmd)
    /\ \/ /\ mounted' = mount_img_enter
          /\ pc' = "prep_unlink"
          /\ Step("sh_mount") /\ Exec("mount")
          /\ UNCHANGED exc
       \/ /\ pc' = "failed" /\ exc' = "ExternalToolFailed"
          /\ Step("sh_mount_failed") /\ Exec("mount")
          /\ UNCHANGED mounted
    /\ UNCHANGED <<inputs, sigint, term, env, img_sh, logs, sim, sub_vars>>

\* old_firesim_sh.unlink(missing_ok=True), then the block's exit
run_interactive_unlink ==
    /\ pc = "prep_unlink"
    /\ img_sh' = "absent"
    /\ mounted' = mount_img_exit
    /\ pc' = "rotate"
    /\ trace' = trace \o <<"unlink_sh", "sh_umount">> /\ Exec("umount")
    /\ UNCHANGED <<exc, inputs, sigint, term, env, logs, sim, sub_vars>>

\* run(): scripted run, write_firesim_sh(sim_config, cmd), then
\* `with utils.mount_img(...)` entered
run_scripted_mount ==
    /\ pc = "start" /\ ~interactive_run(cmd)
    /\ \/ /\ mounted' = mount_img_enter
          /\ pc' = "prep_copy"
          /\ trace' = trace \o <<"write_sh", "sh_mount">> /\ Exec("mount")
          /\ UNCHANGED exc
       \/ /\ pc' = "failed" /\ exc' = "ExternalToolFailed"
          /\ trace' = trace \o <<"write_sh", "sh_mount_failed">> /\ Exec("mount")
          /\ UNCHANGED mounted
    /\ UNCHANGED <<inputs, sigint, term, env, img_sh, logs, sim, sub_vars>>

\* shutil.copy(firesim_sh, mountpoint), then the block's exit
run_scripted_copy ==
    /\ pc = "prep_copy"
    /\ img_sh' = "generated"
    /\ mounted' = mount_img_exit
    /\ pc' = "rotate"
    /\ trace' = trace \o <<"copy_sh", "sh_umount">> /\ Exec("umount")
    /\ UNCHANGED <<exc, inputs, sigint, term, env, logs, sim, sub_vars>>

\* update_log_files: make the timestamped directory, repoint `latest`;
\* mkdir(exist_ok=False) fails when the composed name is taken
update_log_files ==
    /\ pc = "rotate"
    /\ \/ /\ log_dirs' = log_dirs + 1
          /\ latest' = log_dirs + 1
          /\ pc' = "infra_enter"
          /\ Step("rotate")
          /\ UNCHANGED exc
       \/ /\ log_dirs > 0
          /\ pc' = "failed" /\ exc' = "AlreadyExists"
          /\ Step("rotate_failed")
          /\ UNCHANGED logs
    /\ UNCHANGED <<inputs, sigint, term, env, image, sim, started, sub_vars>>

\* ----------------------------------------------------------- infrasetup()

\* infrasetup entered without masking SIGINT
infrasetup_enter_unmasked ==
    /\ pc = "infra_enter"
    /\ pc' = "flash_check"
    /\ UNCHANGED <<exc, inputs, sigint, term, env, image, logs, sim, started,
                   trace, sub_vars>>

\* `with utils.block_sigint():` entered
infrasetup_enter ==
    /\ pc = "infra_enter"
    /\ sigint' = block_sigint_enter
    /\ pc' = "flash_check"
    /\ Step("mask")
    /\ UNCHANGED <<exc, inputs, term, env, image, logs, sim, started, sub_vars>>

\* flash_fpga: the bitstream must exist
flash_fpga_check ==
    /\ pc = "flash_check"
    /\ IF BitstreamMissing(bitstream_exists)
       THEN /\ pc' = InfraUnwind /\ exc' = "MissingBitstream"
            /\ Step("bitstream_missing")
       ELSE /\ pc' = "flash_cmd" /\ UNCHANGED exc
            /\ Step("bitstream_found")
    /\ UNCHANGED <<inputs, sigint, term, env, image, logs, sim, started, sub_vars>>

\* flash_fpga: FLASH_CMD, logged, and run with check=True unless dry-run
flash_fpga_flash ==
    /\ pc = "flash_cmd"
    /\ IF ShouldExec(dry_run)
       THEN /\ Exec("firesim-xvsecctl-flash-fpga")
            /\ \/ /\ pc' = "perms_cmd" /\ UNCHANGED exc
                  /\ Step("flash")
               \/ /\ pc' = InfraUnwind /\ exc' = "ExternalToolFailed"
                  /\ Step("flash_failed")
       ELSE /\ pc' = "perms_cmd"
            /\ Step("log_flash")
            /\ UNCHANGED <<exc, started>>
    /\ UNCHANGED <<inputs, sigint, term, env, image, logs, sim, sub_vars>>

\* flash_fpga: PCIE_PERMS_CMD, logged, and run with check=True unless dry-run
flash_fpga_perms ==
    /\ pc = "perms_cmd"
    /\ IF ShouldExec(dry_run)
       THEN /\ Exec("firesim-change-pcie-perms")
            /\ \/ /\ pc' = "overlay_mount" /\ UNCHANGED exc
                  /\ Step("perms")
               \/ /\ pc' = InfraUnwind /\ exc' = "ExternalToolFailed"
                  /\ Step("perms_failed")
       ELSE /\ pc' = "overlay_mount"
            /\ Step("log_perms")
            /\ UNCHANGED <<exc, started>>
    /\ UNCHANGED <<inputs, sigint, term, env, image, logs, sim, sub_vars>>

\* overlay_disk_image: `with utils.mount_img(...)` entered
overlay_mount ==
    /\ pc = "overlay_mount"
    /\ Exec("mount")
    /\ \/ /\ mounted' = mount_img_enter
          /\ pc' = "overlay_copy"
          /\ Step("overlay_mount")
          /\ UNCHANGED exc
       \/ /\ pc' = InfraUnwind /\ exc' = "ExternalToolFailed"
          /\ Step("overlay_mount_failed")
          /\ UNCHANGED mounted
    /\ UNCHANGED <<inputs, sigint, term, env, img_sh, logs, sim, sub_vars>>

\* shutil.copytree(overlay_path, mountpoint, dirs_exist_ok=True)
overlay_copy ==
    /\ pc = "overlay_copy"
    /\ \/ /\ img_sh' = IF overlay_has_sh THEN "overlay" ELSE img_sh
          /\ pc' = "overlay_umount"
          /\ Step("overlay_copy")
          /\ UNCHANGED exc
       \/ /\ pc' = OverlayUnwind /\ exc' = "CopyFailed"
          /\ Step("overlay_copy_failed")
          /\ UNCHANGED img_sh
    /\ UNCHANGED <<inputs, sigint, term, env, mounted, logs, sim, started,
                   sub_vars>>

\* the exit of `with utils.mount_img(...)`: a propagating exception goes on
overlay_unmount ==
    /\ pc = "overlay_umount"
    /\ mounted' = mount_img_exit
    /\ Exec("umount") /\ Step("overlay_umount")
    /\ pc' = IF exc = "none" THEN "settle" ELSE InfraUnwind
    /\ UNCHANGED <<exc, inputs, sigint, term, env, img_sh, logs, sim, sub_vars>>

\* the block left without the sleep
infrasetup_sleep_skipped ==
    /\ pc = "settle"
    /\ pc' = "infra_exit"
    /\ UNCHANGED <<exc, inputs, sigint, term, env, image, logs, sim, started,
                   trace, sub_vars>>

\* time.sleep(sleep_time)
infrasetup_sleep ==
    /\ pc = "settle"
    /\ pc' = "infra_exit"
    /\ Step("settle")
    /\ UNCHANGED <<exc, inputs, sigint, term, env, image, logs, sim, started,
                   sub_vars>>

\* an infrasetup that drops the exception of a failed step and returns
infrasetup_exit_swallowing ==
    /\ pc = "infra_exit"
    /\ sigint' = block_sigint_exit
    /\ Step("unmask")
    /\ pc' = "sim_enter"
    /\ UNCHANGED <<exc, inputs, term, env, image, logs, sim, started, sub_vars>>

\* the exit of `with utils.block_sigint():`: a propagating exception goes on
\* to the caller of run()
infrasetup_exit ==
    /\ pc = "infra_exit"
    /\ sigint' = block_sigint_exit
    /\ Step("unmask")
    /\ pc' = IF exc = "none" THEN "sim_enter" ELSE "failed"
    /\ UNCHANGED <<exc, inputs, term, env, image, logs, sim, started, sub_vars>>

\* ------------------------------------------------------- run_simulation()

\* run_simulation that extends LD_LIBRARY_PATH first and remaps the
\* interrupt key after it
run_simulation_enter_extend_first ==
    /\ pc = "sim_enter"
    /\ pre' = [entered |-> TRUE, ld |-> ld_path, intr |-> intr_key]
    /\ old_ld_library_path' = extend_path_old(ld_path)
    /\ ld_path' = extend_path_new(ld_path, SimConfigDir)
    /\ old_intr_key' = intr_key
    /\ intr_key' = change_sigint_key_enter
    /\ Exec("stty") /\ trace' = trace \o <<"extend_ld", "remap_key">>
    /\ pc' = "sim_popen"
    /\ UNCHANGED <<exc, inputs, sigint, image, logs, reads, returncode,
                   sub_vars>>

\* build_firesim_cmd, then `with utils.change_sigint_key(...)` entered
run_simulation_enter ==
    /\ pc = "sim_enter"
    /\ pre' = [entered |-> TRUE, ld |-> ld_path, intr |-> intr_key]
    /\ old_intr_key' = intr_key
    /\ intr_key' = change_sigint_key_enter
    /\ Exec("stty") /\ Step("remap_key")
    /\ pc' = "sim_extend"
    /\ UNCHANGED <<exc, inputs, sigint, env, image, logs, reads, returncode,
                   sub_vars>>

\* pty.openpty(), then utils.extend_path("LD_LIBRARY_PATH", [sim_config])
run_simulation_extend ==
    /\ pc = "sim_extend"
    /\ old_ld_library_path' = extend_path_old(ld_path)
    /\ ld_path' = extend_path_new(ld_path, SimConfigDir)
    /\ Step("extend_ld")
    /\ pc' = "sim_popen"
    /\ UNCHANGED <<exc, inputs, sigint, term, image, logs, sim, started,
                   sub_vars>>

\* open(uartlog, "w") and subprocess.Popen(fsim_cmd, ...): the simulation
\* driver is started whatever utils.dry_run is
run_simulation_popen ==
    /\ pc = "sim_popen"
    /\ \/ /\ Exec("FireSim-xilinx_vcu118") /\ Step("popen")
          /\ pc' = "sim_stream"
          /\ UNCHANGED exc
       \/ /\ Step("popen_failed")
          /\ pc' = SimUnwind /\ exc' = "LaunchFailed"
          /\ UNCHANGED started
    /\ UNCHANGED <<inputs, sigint, term, env, image, logs, sim, sub_vars>>

\* os.read(master, 1024) returned bytes: they are decoded, printed and
\* written; a chunk that is not whole UTF-8 makes output.decode() raise
\* UnicodeDecodeError, which `except OSError` does not catch
run_simulation_read ==
    /\ pc = "sim_stream"
    /\ reads < MaxReads
    /\ reads' = reads + 1
    /\ \/ UNCHANGED <<pc, exc, trace>>
       \/ /\ pc' = SimUnwind /\ exc' = "UnicodeDecodeError"
          /\ Step("decode_failed")
    /\ UNCHANGED <<inputs, sigint, term, env, image, logs, returncode, pre,
                   started, sub_vars>>

\* os.read returned b"" or raised OSError: break, os.close(master)
run_simulation_eof ==
    /\ pc = "sim_stream"
    /\ pc' = "sim_wait"
    /\ Step("eof")
    /\ UNCHANGED <<exc, inputs, sigint, term, env, image, logs, sim, started,
                   sub_vars>>

\* proc.wait(); a non-zero return code raises CalledProcessError
run_simulation_wait ==
    /\ pc = "sim_wait"
    /\ \E rc \in {0, 1} :
          /\ returncode' = rc
          /\ IF rc # 0
             THEN /\ pc' = SimUnwind /\ exc' = "SimulationFailed"
                  /\ Step("sim_failed")
             ELSE /\ pc' = "sim_restore_ld" /\ UNCHANGED exc
                  /\ Step("sim_ok")
    /\ UNCHANGED <<inputs, sigint, term, env, image, logs, reads, pre, started,
                   sub_vars>>

\* os.environ["LD_LIBRARY_PATH"] = old_ld_library_path
run_simulation_restore ==
    /\ pc = "sim_restore_ld"
    /\ ld_path' = SetTo(old_ld_library_path)
    /\ Step("restore_ld")
    /\ pc' = "sim_key_exit"
    /\ UNCHANGED <<exc, inputs, sigint, term, old_ld_library_path, image, logs,
                   sim, started, sub_vars>>

\* the exit of `with utils.change_sigint_key(...)`: a propagating exception
\* goes on to the caller of run()
run_simulation_exit ==
    /\ pc = "sim_key_exit"
    /\ intr_key' = change_sigint_key_exit(old_intr_key)
    /\ Exec("stty") /\ Step("restore_key")
    /\ pc' = IF exc = "none" THEN "done" ELSE "failed"
    /\ UNCHANGED <<exc, inputs, sigint, old_intr_key, env, image, logs, sim,
                   sub_vars>>

\* --------------------------------------------------- submit_slurm_job()

\* The configuration submit_slurm_job is given (config.py, BatchConfig).
Partitions == <<"firesim", "debug">>
Nodelist == <<"pepperjack">>
RunName == "run0"
RunId == "uuid-1"
NilId == "nil"
JobFile == "/cfg/run-run0.sh"

\* A string that is one token long.
Str(t) == <<t>>

\* ",".join(xs)
RECURSIVE comma_join(_)
comma_join(xs) ==
    IF Len(xs) = 0 THEN <<>>
    ELSE IF Len(xs) = 1 THEN <<xs[1]>>
    ELSE <<xs[1], ",">> \o comma_join(Tail(xs))

\* config.verbose()
verbose(v) == v > 0

\* config.verbose_flag(): "-" + "v" * verbosity, or "" when verbosity is 0
verbose_flag(v) == IF v > 0 THEN <<"-">> \o [i \in 1..v |-> "v"] ELSE <<>>

\* `if utils.dry_run: sbatch_cmd += ["--test-only"]`
test_only_flag_never(dry) == <<>>
test_only_flag(dry) == IF dry THEN <<Str("--test-only")>> ELSE <<>>

\* A command line with the job script ahead of the optional flags.
build_sbatch_cmd_script_first(v, dry) ==
    <<Str("sbatch"),
      Str("--partition"), comma_join(Partitions),
      Str("--nodelist"), comma_join(Nodelist),
      Str("--job-name"), Str(RunName),
      Str("--output"), Str("slurm_output"),
      Str("--error"), Str("slurm_error"),
      Str("--exclusive"),
      Str(JobFile)>>
    \o (IF verbose(v) THEN <<verbose_flag(v)>> ELSE <<>>)
    \o test_only_flag(dry)

\* The sbatch command line: each argument is one element, a string.
build_sbatch_cmd(v, dry) ==
    <<Str("sbatch"),
      Str("--partition"), comma_join(Partitions),
      Str("--nodelist"), comma_join(Nodelist),
      Str("--job-name"), Str(RunName),
      Str("--output"), Str("slurm_output"),
      Str("--error"), Str("slurm_error"),
      Str("--exclusive")>>
    \o (IF verbose(v) THEN <<verbose_flag(v)>> ELSE <<>>)
    \o test_only_flag(dry)
    \o <<Str(JobFile)>>

\* A run_cmd that runs the command whatever the dry-run switch.
run_cmd_always(c, dry) == <<c>>

\* utils.run_cmd: the commands it really runs (none under dry-run)
run_cmd(c, dry) == IF dry THEN <<>> ELSE <<c>>

\* What sbatch can print: strings over these tokens, up to MaxOut long.
Prefix == "Submitted batch job "
Digits == {"4", "8"}
OutTokens == {Prefix, "\n", "x"} \cup Digits
Stdouts == UNION {[1..n -> OutTokens] : n \in 0..MaxOut}

DigitVal(d) == IF d = "4" THEN 4 ELSE 8

\* int(str) of a string of digits
RECURSIVE int_of(_)
int_of(ds) ==
    IF Len(ds) = 0 THEN 0
    ELSE 10 * int_of(SubSeq(ds, 1, Len(ds) - 1)) + DigitVal(ds[Len(ds)])

AllDigits(ds) == Len(ds) > 0 /\ \A i \in 1..Len(ds) : ds[i] \in Digits

\* A `$` that is taken at the very end of the text only.
StripFinalNewline_kept(out) == out

\* The body a match of r"^Submitted batch job (\d+)$" leaves when `$` is
\* taken at the end or before one final newline.
StripFinalNewline(out) ==
    IF Len(out) > 0 /\ out[Len(out)] = "\n"
    THEN SubSeq(out, 1, Len(out) - 1) ELSE out

\* re.match(r"^Submitted batch job (\d+)$", out) is not None
job_match(out) ==
    LET b == StripFinalNewline(out)
    IN  Len(b) >= 2 /\ b[1] = Prefix /\ AllDigits(Tail(b))

\* job_match[1]
job_match_1(out) == Tail(StripFinalNewline(out))

\* The command line is assembled.
submit_build ==
    /\ s_pc = "build"
    /\ sbatch_cmd' = build_sbatch_cmd(verbosity, dry_run)
    /\ s_pc' = "dry_log"
    /\ UNCHANGED <<pc, exc, inputs, sigint, term, env, image, logs, sim,
                   started, trace, verbosity, s_run, proc, job, s_exc,
                   s_exc_data>>

\* `if utils.dry_run: utils.run_cmd(sbatch_cmd)`
submit_run_cmd ==
    /\ s_pc = "dry_log"
    /\ s_run' = IF dry_run THEN s_run \o run_cmd(sbatch_cmd, dry_run) ELSE s_run
    /\ s_pc' = "exec"
    /\ UNCHANGED <<pc, exc, inputs, sigint, term, env, image, logs, sim,
                   started, trace, verbosity, sbatch_cmd, proc, job, s_exc,
                   s_exc_data>>

\* What sbatch can write to its standard error.
Stderrs == {<<>>, <<"sbatch: error">>}

\* An exception that carries no output.
NoData == [output |-> Unset, stderr |-> Unset]

\* The CalledProcessError of the explicit `raise` after subprocess.run: it
\* is given the return code and the command only.
raised_without_output(out, err) == NoData

\* The CalledProcessError subprocess.run raises under check=True: it
\* carries the captured stdout and stderr.
check_true_error(out, err) == [output |-> SetTo(out), stderr |-> SetTo(err)]

\* subprocess.run(sbatch_cmd, capture_output=True, text=True, check=True):
\* check=True raises CalledProcessError on a non-zero exit
submit_exec ==
    /\ s_pc = "exec"
    /\ s_run' = Append(s_run, sbatch_cmd)
    /\ \E rc \in {0, 1}, out \in Stdouts, err \in Stderrs :
          /\ proc' = [rc |-> rc, out |-> out, err |-> err]
          /\ IF rc # 0
             THEN /\ s_pc' = "s_failed" /\ s_exc' = "CalledProcessError"
                  /\ s_exc_data' = check_true_error(out, err)
             ELSE /\ s_pc' = "parse" /\ UNCHANGED <<s_exc, s_exc_data>>
    /\ UNCHANGED <<pc, exc, inputs, sigint, term, env, image, logs, sim,
                   started, trace, verbosity, sbatch_cmd, job>>

\* A submit_slurm_job that extracts the job id whatever the dry-run switch.
submit_parse_always ==
    /\ s_pc = "parse"
    /\ IF job_match(proc.out)
       THEN /\ job' = [slurm_job_id |-> int_of(job_match_1(proc.out)),
                       run_id |-> RunId]
            /\ s_pc' = "s_done" /\ UNCHANGED s_exc
       ELSE /\ s_pc' = "s_failed" /\ s_exc' = "TypeError"
            /\ UNCHANGED job
    /\ UNCHANGED <<pc, exc, inputs, sigint, term, env, image, logs, sim,
                   started, trace, verbosity, sbatch_cmd, s_run, proc,
                   s_exc_data>>

\* job = JobInfo(); unless dry-run the id is parsed out of proc.stdout:
\* subscripting the None of a failed match raises TypeError
submit_parse ==
    /\ s_pc = "parse"
    /\ IF ~dry_run
       THEN IF job_match(proc.out)
            THEN /\ job' = [slurm_job_id |-> int_of(job_match_1(proc.out)),
                            run_id |-> RunId]
                 /\ s_pc' = "s_done" /\ UNCHANGED s_exc
            ELSE /\ s_pc' = "s_failed" /\ s_exc' = "TypeError"
                 /\ UNCHANGED job
       ELSE /\ job' = [slurm_job_id |-> -1, run_id |-> NilId]
            /\ s_pc' = "s_done" /\ UNCHANGED s_exc
    /\ UNCHANGED <<pc, exc, inputs, sigint, term, env, image, logs, sim,
                   started, trace, verbosity, sbatch_cmd, s_run, proc,
                   s_exc_data>>

\* ------------------------------------------------ configuration records

\* What the file system holds at a path: os.path.exists, is_dir, is_file
\* and the three os.access answers.
Entry(d, f, r, w, x) ==
    [exists |-> d \/ f, is_dir |-> d, is_file |-> f, r |-> r, w |-> w, x |-> x]

Missing == Entry(FALSE, FALSE, FALSE, FALSE, FALSE)
DirRW == Entry(TRUE, FALSE, TRUE, TRUE, TRUE)
DirRO == Entry(TRUE, FALSE, TRUE, FALSE, TRUE)
FileRX == Entry(FALSE, TRUE, TRUE, FALSE, TRUE)
FileR == Entry(FALSE, TRUE, TRUE, FALSE, FALSE)

path_is_readable_dir(p) == p.exists /\ p.is_dir /\ p.r
path_is_writable_dir(p) == p.exists /\ p.is_dir /\ p.w
path_is_readable_file(p) == p.exists /\ p.is_file /\ p.r
path_is_executable_file(p) == p.exists /\ p.is_file /\ p.x

\* A simulation-config directory: the directory itself, its xilinx_vcu118
\* subdirectory, the driver and the bitstream.
GoodSimConfig ==
    [at |-> DirRW, sub |-> DirRW, driver |-> FileRX, bit |-> FileR]

SimConfigs ==
    {GoodSimConfig,
     [GoodSimConfig EXCEPT !.bit = Missing],
     [GoodSimConfig EXCEPT !.driver = FileR]}
Overlays == {DirRW, Missing}
SimImgs ==
    {[at |-> FileR, suffix |-> ".img"],
     [at |-> FileR, suffix |-> ".qcow2"],
     [at |-> Missing, suffix |-> ".img"]}
SimProgs == {FileRX, FileR}
LogDirs == {DirRW, DirRO}

validate_sim_config(o) ==
    /\ path_is_readable_dir(o.sim_config.at)
    /\ path_is_readable_dir(o.sim_config.sub)
    /\ path_is_executable_file(o.sim_config.driver)
    /\ path_is_readable_file(o.sim_config.bit)

validate_overlay(o) == path_is_readable_dir(o.overlay_path)

validate_sim_img(o) ==
    path_is_readable_file(o.sim_img.at) /\ o.sim_img.suffix = ".img"

validate_sim_prog(o) ==
    path_is_readable_file(o.sim_prog) /\ path_is_executable_file(o.sim_prog)

validate_log_dir(o) ==
    path_is_readable_dir(o.log_dir) /\ path_is_writable_dir(o.log_dir)

\* The characters of r"[a-zA-Z0-9.\-_]", one of each kind.
RunNameChars == {"a", "Z", "0", ".", "-", "_"}

\* The characters run names are drawn from.
NameChars == {"a", ".", " ", ":"}
MaxName == 2
RunNames == UNION {[1..n -> NameChars] : n \in 0..MaxName}

\* os.pathsep
pathsep == ":"

validate_run_name(o) ==
    IF \/ Len(o.run_name) = 0
       \/ \E i \in 1..Len(o.run_name) : o.run_name[i] = pathsep
    THEN FALSE
    ELSE \A i \in 1..Len(o.run_name) : o.run_name[i] \in RunNameChars

\* The commands: None, "", " " and "ls".
Cmds == {Unset, SetTo(<<>>), SetTo(<<" ">>), SetTo(<<"l", "s">>)}

\* An is_interactive that takes a blank command for no command.
is_interactive_stripped(o) ==
    ~o.cmd.set \/ \A i \in 1..Len(o.cmd.val) : o.cmd.val[i] = " "

\* self.cmd is None or self.cmd == ""
is_interactive(o) == ~o.cmd.set \/ o.cmd.val = <<>>

NoError == [type |-> "none", msg |-> "none"]
AssertionError(m) == [type |-> "AssertionError", msg |-> m]
ValueError(m) == [type |-> "ValueError", msg |-> m]

\* The first assertion of FireSlurmConfig.__post_init__ that fails.
FireSlurmConfig_post_init(o) ==
    IF ~validate_sim_config(o)
    THEN AssertionError("Simulator config directory invalid")
    ELSE IF ~validate_overlay(o)
    THEN AssertionError("Overlay directory invalid")
    ELSE IF ~validate_sim_img(o)
    THEN AssertionError("Simulation disk image invalid")
    ELSE IF ~validate_sim_prog(o)
    THEN AssertionError("Simulation program (kernel) invalid")
    ELSE IF ~validate_log_dir(o)
    THEN AssertionError("Log directory is invalid")
    ELSE NoError

\* SlurmJobConfig.__post_init__ overrides the base one and does not call it.
SlurmJobConfig_post_init(o) ==
    IF validate_run_name(o) THEN NoError
    ELSE AssertionError("Run name is invalid")

\* BatchConfig.__post_init__ overrides both and calls neither.
BatchConfig_post_init(o) ==
    IF ~is_interactive(o) THEN NoError
    ELSE AssertionError("Batch runs must have a command")

\* The __post_init__ the generated __init__ of a class resolves to.
post_init(cls, o) ==
    CASE cls = "FireSlurmConfig" -> FireSlurmConfig_post_init(o)
      [] cls = "RunConfig" -> SlurmJobConfig_post_init(o)
      [] cls = "BatchConfig" -> BatchConfig_post_init(o)

\* The keyword arguments of a constructor call; run_id is Unset when the
\* caller leaves _run_id to its default factory.
Kwargs ==
    [overlay_path : Overlays, sim_config : SimConfigs, sim_img : SimImgs,
     sim_prog : SimProgs, log_dir : LogDirs, run_name : RunNames,
     cmd : Cmds, run_id : {Unset}]

NoKwargs ==
    [overlay_path |-> Missing, sim_config |-> GoodSimConfig,
     sim_img |-> [at |-> Missing, suffix |-> ".img"], sim_prog |-> Missing,
     log_dir |-> Missing, run_name |-> <<>>, cmd |-> Unset, run_id |-> Unset]

NoObject == [cls |-> "none", fields |-> NoKwargs]

\* A conversion that leaves _run_id to the default factory.
asdict_without_run_id(o) == [o.fields EXCEPT !.run_id = Unset]

\* dataclasses.asdict
asdict(o) == o.fields

\* The fields the generated __init__ sets: _run_id comes from the caller
\* or from the default factory.
init_fields(kw, fresh) ==
    IF kw.run_id.set THEN kw ELSE [kw EXCEPT !.run_id = SetTo(fresh)]

\* cls(**kw): the record is built, then __post_init__ validates it.
construct(cls, kw, fresh) ==
    LET o == [cls |-> cls, fields |-> init_fields(kw, fresh)]
        e == post_init(cls, o.fields)
    IN  [err |-> e, obj |-> IF e = NoError THEN o ELSE NoObject]

\* FireSlurmConfig(**c_in)
new_FireSlurmConfig ==
    /\ c_pc = "new"
    /\ LET r == construct("FireSlurmConfig", c_in, uuids + 1)
       IN  /\ c_cls' = "FireSlurmConfig"
           /\ c_obj' = r.obj /\ c_err' = r.err
           /\ c_pc' = IF r.err = NoError THEN "built" ELSE "failed"
    /\ uuids' = uuids + 1
    /\ UNCHANGED <<c_in, c_conv, c_back, job_vars>>

\* RunConfig(**c_in)
new_RunConfig ==
    /\ c_pc = "new"
    /\ LET r == construct("RunConfig", c_in, uuids + 1)
       IN  /\ c_cls' = "RunConfig"
           /\ c_obj' = r.obj /\ c_err' = r.err
           /\ c_pc' = IF r.err = NoError THEN "built" ELSE "failed"
    /\ uuids' = uuids + 1
    /\ UNCHANGED <<c_in, c_conv, c_back, job_vars>>

\* BatchConfig(**c_in)
new_BatchConfig ==
    /\ c_pc = "new"
    /\ LET r == construct("BatchConfig", c_in, uuids + 1)
       IN  /\ c_cls' = "BatchConfig"
           /\ c_obj' = r.obj /\ c_err' = r.err
           /\ c_pc' = IF r.err = NoError THEN "built" ELSE "failed"
    /\ uuids' = uuids + 1
    /\ UNCHANGED <<c_in, c_conv, c_back, job_vars>>

\* BatchConfig.from_run_config(c_obj)
from_run_config ==
    /\ c_pc = "built" /\ c_obj.cls = "RunConfig"
    /\ IF c_obj.fields.cmd.set /\ c_obj.fields.cmd.val # <<>>
       THEN LET r == construct("BatchConfig", asdict(c_obj), uuids + 1)
            IN  /\ c_conv' = r.obj /\ c_err' = r.err
                /\ c_pc' = IF r.err = NoError THEN "converted"
                           ELSE "convert_failed"
       ELSE /\ c_err' = ValueError("must provide a cmd!")
            /\ c_pc' = "convert_failed" /\ UNCHANGED c_conv
    /\ UNCHANGED <<c_cls, c_in, c_obj, c_back, uuids, job_vars>>

\* RunConfig.from_batch_config(c_obj)
from_batch_config ==
    /\ c_pc = "built" /\ c_obj.cls = "BatchConfig"
    /\ LET r == construct("RunConfig", asdict(c_obj), uuids + 1)
       IN  /\ c_conv' = r.obj /\ c_err' = r.err
           /\ c_pc' = IF r.err = NoError THEN "converted"
                      ELSE "convert_failed"
    /\ UNCHANGED <<c_cls, c_in, c_obj, c_back, uuids, job_vars>>

\* RunConfig.from_batch_config(c_conv), on the BatchConfig that
\* BatchConfig.from_run_config(c_obj) returned
from_batch_config_back ==
    /\ c_pc = "converted" /\ c_conv.cls = "BatchConfig"
    /\ LET r == construct("RunConfig", asdict(c_conv), uuids + 1)
       IN  /\ c_back' = r.obj /\ c_err' = r.err
           /\ c_pc' = IF r.err = NoError THEN "round_trip"
                      ELSE "round_trip_failed"
    /\ UNCHANGED <<c_cls, c_in, c_obj, c_conv, uuids, job_vars>>

\* ------------------------------------------------------- the log root

\* The runs that share one log root and one base name.
Runs == {"A", "B"}

MaxClock == 2

\* A path: the alias log root/latest, or the run directory of a timestamp.
LatestPath == [alias |-> TRUE, name |-> -1]
DirPath(d) == [alias |-> FALSE, name |-> d]
NoPath == [alias |-> FALSE, name |-> -1]

\* log_name + dt.strftime("%Y-%m-%d%H%M%S"): one name per second
composed_name(t) == t

\* A mkdir that accepts an existing directory.
mkdir_fails_never(ds, d) == FALSE

\* current_run_log.mkdir(exist_ok=False) raises FileExistsError
mkdir_fails(ds, d) == d \in ds

\* os.symlink(src=current_run_log, dst=latest_log) stores the text of
\* log_dir / log_name: a relative text when log_dir is relative.
symlink_target(abs, d) == [rel |-> ~abs, name |-> d]

\* The directory a path resolves to, -1 when it resolves to nothing. A
\* relative target is looked up from the directory that holds the link,
\* the log root, where "log root/name" names nothing.
resolve(p, ds, l) ==
    IF ~p.alias THEN (IF p.name \in ds THEN p.name ELSE -1)
    ELSE IF ~l.set THEN -1
    ELSE IF l.val.rel THEN -1
    ELSE IF l.val.name \in ds THEN l.val.name ELSE -1

\* One second passes.
tick ==
    /\ now < MaxClock
    /\ now' = now + 1
    /\ UNCHANGED <<root_abs, root_exists, dirs, link, files, r_pc, r_made,
                   r_ret, r_used, r_exc, r_order, rest_vars>>

\* update_log_files(log_dir, log_name) called by run r: the log root is
\* made if missing, the run directory is made, `latest` is removed and
\* linked anew, and the path of `latest` is returned.
update_log_files_by(r) ==
    /\ r_pc[r] = "idle"
    /\ r_order' = Append(r_order, r)
    /\ root_exists' = TRUE
    /\ LET d == composed_name(now)
       IN  IF mkdir_fails(dirs, d)
           THEN /\ r_pc' = [r_pc EXCEPT ![r] = "failed"]
                /\ r_exc' = [r_exc EXCEPT ![r] = "FileExistsError"]
                /\ UNCHANGED <<dirs, link, r_made, r_ret>>
           ELSE /\ dirs' = dirs \cup {d}
                /\ link' = SetTo(symlink_target(root_abs, d))
                /\ r_made' = [r_made EXCEPT ![r] = d]
                /\ r_ret' = [r_ret EXCEPT ![r] = LatestPath]
                /\ r_pc' = [r_pc EXCEPT ![r] = "rotated"]
                /\ UNCHANGED r_exc
    /\ UNCHANGED <<root_abs, now, files, r_used, rest_vars>>

\* run_simulation: uartlog = log_dir / "uartlog"; open(uartlog, "w"), with
\* log_dir the path update_log_files returned
run_simulation_open(r) ==
    /\ r_pc[r] = "rotated"
    /\ LET d == resolve(r_ret[r], dirs, link)
       IN  IF d = -1
           THEN /\ r_pc' = [r_pc EXCEPT ![r] = "open_failed"]
                /\ r_exc' = [r_exc EXCEPT ![r] = "FileNotFoundError"]
                /\ UNCHANGED <<files, r_used>>
           ELSE /\ files' = files \cup {<<d, r>>}
                /\ r_used' = [r_used EXCEPT ![r] = d]
                /\ r_pc' = [r_pc EXCEPT ![r] = "launched"]
                /\ UNCHANGED r_exc
    /\ UNCHANGED <<root_abs, root_exists, now, dirs, link, r_made, r_ret,
                   r_order, rest_vars>>

\* ------------------------------------------------------------ job script

\* The characters a command is made of: a letter, a blank, a single quote
\* and a command separator.
CmdChars == {"a", " ", "'", ";"}
Commands == UNION {[1..n -> CmdChars] : n \in 0..MaxCmd}

\* BatchConfig: the fields of FireSlurmConfig and SlurmJobConfig that a run
\* uses.  Paths are already resolved.
BatchConfigs ==
    [run_name : {"r1", "r2"}, sim_config : {"/cfg"},
     overlay_path : {"/overlay"}, sim_img : {"/img"}, sim_prog : {"/prog"},
     log_dir : {"/logs"}, print_start : {"0", "1"},
     verbosity : 0..MaxVerbosity, cmd : Commands]
NoBatchConfig ==
    [run_name |-> "", sim_config |-> "", overlay_path |-> "", sim_img |-> "",
     sim_prog |-> "", log_dir |-> "", print_start |-> "", verbosity |-> 0,
     cmd |-> <<>>]

\* The python3 command of the script, character by character; a word that
\* holds no blank, quote or separator is one element.  Line continuations
\* are blanks.
build_job_script_contents(config, run_py) ==
    <<"python3", " ", run_py, " ">> \o verbose_flag(config.verbosity)
    \o <<" ", "direct-run", " ",
         "--run-name", " ", config.run_name, " ",
         "--sim-config", " ", config.sim_config, " ",
         "--overlay-path", " ", config.overlay_path, " ",
         "--sim-img", " ", config.sim_img, " ",
         "--sim-prog", " ", config.sim_prog, " ",
         "--log-dir", " ", config.log_dir, " ",
         "--", " ", "'">> \o config.cmd \o <<"'">>

\* bash splitting a simple command into words: a single quote opens or
\* closes a quoted stretch in which every character is literal; outside one
\* a blank ends the word and a ; ends the command.
RECURSIVE bash_scan(_, _, _, _, _)
bash_scan(cs, quoted, cur, open, words) ==
    IF cs = <<>> THEN (IF open THEN Append(words, cur) ELSE words)
    ELSE LET c == Head(cs)
             r == Tail(cs)
         IN  IF c = "'" THEN bash_scan(r, ~quoted, cur, TRUE, words)
             ELSE IF quoted THEN bash_scan(r, TRUE, Append(cur, c), TRUE, words)
             ELSE IF c = " "
                  THEN bash_scan(r, FALSE, <<>>, FALSE,
                                 IF open THEN Append(words, cur) ELSE words)
             ELSE IF c = ";"
                  THEN (IF open THEN Append(words, cur) ELSE words)
             ELSE bash_scan(r, FALSE, Append(cur, c), TRUE, words)

\* A quote left open at the end of the script is a syntax error: bash runs
\* nothing of the command.
bash_words(line) ==
    LET quotes == Cardinality({i \in 1..Len(line) : line[i] = "'"})
    IN  IF quotes % 2 = 1 THEN [ok |-> FALSE, argv |-> <<>>]
        ELSE [ok |-> TRUE, argv |-> bash_scan(line, FALSE, <<>>, FALSE, <<>>)]

\* The value argparse stores when --print-start is not given.
DefaultPrintStart == "-1"

NoNamespace ==
    [ran |-> FALSE, verbosity |-> 0, run_name |-> <<>>, sim_config |-> <<>>,
     overlay_path |-> <<>>, sim_img |-> <<>>, sim_prog |-> <<>>,
     log_dir |-> <<>>, print_start |-> <<>>, cmd |-> <<>>]

\* parser.parse_args() of fireslurm.py for the direct-run command: -v is
\* counted, each long flag stores the word after it, the words after -- are
\* the command.
parse_args(argv) ==
    LET seps == {i \in 1..Len(argv) : argv[i] = Str("--")}
        sep == IF seps = {} THEN Len(argv) + 1
               ELSE CHOOSE i \in seps : \A j \in seps : i <= j
        at(flag) == {i \in 1..(sep - 2) : argv[i] = Str(flag)}
        option(flag, default) ==
            IF at(flag) = {} THEN default
            ELSE argv[(CHOOSE i \in at(flag) : \A j \in at(flag) : i >= j) + 1]
        vs == {i \in 1..(sep - 1) :
                 /\ Len(argv[i]) >= 2 /\ argv[i][1] = "-"
                 /\ \A j \in 2..Len(argv[i]) : argv[i][j] = "v"}
    IN  [ran |-> TRUE,
         verbosity |-> IF vs = {} THEN 0
                       ELSE Len(argv[CHOOSE i \in vs : TRUE]) - 1,
         run_name |-> option("--run-name", <<>>),
         sim_config |-> option("--sim-config", <<>>),
         overlay_path |-> option("--overlay-path", <<>>),
         sim_img |-> option("--sim-img", <<>>),
         sim_prog |-> option("--sim-prog", <<>>),
         log_dir |-> option("--log-dir", <<>>),
         print_start |-> option("--print-start", Str(DefaultPrintStart)),
         cmd |-> SubSeq(argv, sep + 1, Len(argv))]

\* main(): " ; ".join(args.cmd)
RECURSIVE join_cmd(_)
join_cmd(words) ==
    IF words = <<>> THEN <<>>
    ELSE IF Len(words) = 1 THEN words[1]
    ELSE words[1] \o <<" ", ";", " ">> \o join_cmd(Tail(words))

\* SlurmJobConfig.print_start when the constructor is not given one
PrintStartDefault == "0"

NoRunConfig ==
    [verbosity |-> 0, run_name |-> <<>>, sim_config |-> <<>>,
     overlay_path |-> <<>>, sim_img |-> <<>>, sim_prog |-> <<>>,
     log_dir |-> <<>>, print_start |-> <<>>, cmd |-> <<>>]

\* main() and direct_run(): the flags given on the command line are laid
\* over the configuration file, then RunConfig is constructed from that
\* configuration, args.run_name and args.cmd
direct_run(args) ==
    [verbosity |-> args.verbosity,
     run_name |-> args.run_name,
     sim_config |-> args.sim_config,
     overlay_path |-> args.overlay_path,
     sim_img |-> args.sim_img,
     sim_prog |-> args.sim_prog,
     log_dir |-> args.log_dir,
     print_start |-> Str(PrintStartDefault),
     cmd |-> join_cmd(args.cmd)]

\* batch(): the job script is built from the configuration
script_build ==
    /\ b_pc = "config"
    /\ b_script' = build_job_script_contents(b_cfg, "/fireslurm.py")
    /\ b_pc' = "script"
    /\ UNCHANGED <<b_cfg, b_ns, b_run, uart_vars, prog_vars>>

\* the scheduler starts the job: bash runs the script, fireslurm.py parses
\* its arguments
script_run ==
    /\ b_pc = "script"
    /\ LET w == bash_words(b_script)
       IN  IF w.ok
           THEN /\ b_ns' = parse_args(w.argv)
                /\ b_run' = direct_run(parse_args(w.argv))
           ELSE /\ b_ns' = NoNamespace
                /\ b_run' = NoRunConfig
    /\ b_pc' = "ran"
    /\ UNCHANGED <<b_cfg, b_script, uart_vars, prog_vars>>

\* ------------------------------------------------------- simulation output

StreamChars == {"a", "\r", "\n"}
Streams == UNION {[1..n -> StreamChars] : n \in 0..MaxStream}

\* str.replace("\r\n", "\n")
RECURSIVE replace_crlf(_)
replace_crlf(line) ==
    IF line = <<>> THEN <<>>
    ELSE IF Len(line) >= 2 /\ line[1] = "\r" /\ line[2] = "\n"
         THEN <<"\n">> \o replace_crlf(Tail(Tail(line)))
         ELSE <<Head(line)>> \o replace_crlf(Tail(line))

\* one turn of the loop of run_simulation: os.read returns some of what is
\* pending, which is converted, printed and written to uartlog
uart_read ==
    /\ u_pc = "stream"
    /\ \E n \in 1..Len(u_rest) :
          LET n_line == replace_crlf(SubSeq(u_rest, 1, n))
          IN  /\ u_term' = u_term \o n_line
              /\ u_log' = u_log \o n_line
              /\ u_rest' = SubSeq(u_rest, n + 1, Len(u_rest))
    /\ UNCHANGED <<u_pc, u_stream, scr_vars, prog_vars>>

\* os.read returns no bytes or raises OSError: the loop ends
uart_eof ==
    /\ u_pc = "stream"
    /\ u_rest = <<>>
    /\ u_pc' = "closed"
    /\ UNCHANGED <<u_stream, u_rest, u_term, u_log, scr_vars, prog_vars>>

\* -------------------------------------------------------- specification

\* No job script is being built and no output is being copied.
TxtIdle ==
    /\ b_pc = "idle" /\ b_cfg = NoBatchConfig /\ b_script = <<>>
    /\ b_ns = NoNamespace /\ b_run = NoRunConfig
    /\ u_pc = "idle" /\ u_stream = <<>> /\ u_rest = <<>>
    /\ u_term = <<>> /\ u_log = <<>>

\* No configuration record is under construction.
CfgIdle ==
    /\ c_pc = "idle" /\ c_cls = "none" /\ c_in = NoKwargs
    /\ c_obj = NoObject /\ c_conv = NoObject /\ c_back = NoObject
    /\ c_err = NoError
    /\ uuids = 0

\* Nothing uses the log root.
RotIdle ==
    /\ root_abs = TRUE /\ root_exists = TRUE /\ now = 0
    /\ dirs = {} /\ link = Unset /\ files = {}
    /\ r_pc = [r \in Runs |-> "none"]
    /\ r_made = [r \in Runs |-> -1]
    /\ r_ret = [r \in Runs |-> NoPath]
    /\ r_used = [r \in Runs |-> -1]
    /\ r_exc = [r \in Runs |-> "none"]
    /\ r_order = <<>>

SubIdle ==
    /\ s_pc = "idle" /\ verbosity = 0 /\ sbatch_cmd = <<>> /\ s_run = <<>>
    /\ proc = [rc |-> -1, out |-> <<>>, err |-> <<>>]
    /\ job = [slurm_job_id |-> -1, run_id |-> NilId]
    /\ s_exc = "none" /\ s_exc_data = NoData

Init ==
    /\ pc = "start" /\ exc = "none"
    /\ dry_run \in BOOLEAN
    /\ cmd \in {"", "ls"}
    /\ bitstream_exists \in BOOLEAN
    /\ overlay_has_sh \in BOOLEAN
    /\ args_valid \in BOOLEAN
    /\ sigint = "default"
    /\ intr_key \in {ConventionalKey, "^x"}
    /\ old_intr_key = "none"
    /\ ld_path \in LdPathInputs
    /\ old_ld_library_path = <<>>
    /\ mounted = FALSE
    /\ img_sh \in {"absent", "stale"}
    /\ log_dirs \in {0, 1}
    /\ latest = log_dirs
    /\ reads = 0 /\ returncode = -1
    /\ pre = [entered |-> FALSE, ld |-> Unset, intr |-> "none"]
    /\ started = <<>> /\ trace = <<>>
    /\ SubIdle
    /\ CfgIdle
    /\ RotIdle
    /\ TxtIdle

Next ==
    \/ run_interactive_mount
    \/ run_interactive_unlink
    \/ run_scripted_mount
    \/ run_scripted_copy
    \/ update_log_files
    \/ infrasetup_enter
    \/ flash_fpga_check
    \/ flash_fpga_flash
    \/ flash_fpga_perms
    \/ overlay_mount
    \/ overlay_copy
    \/ overlay_unmount
    \/ infrasetup_sleep
    \/ infrasetup_exit
    \/ run_simulation_enter
    \/ run_simulation_extend
    \/ run_simulation_popen
    \/ run_simulation_read
    \/ run_simulation_eof
    \/ run_simulation_wait
    \/ run_simulation_restore
    \/ run_simulation_exit

Spec == Init /\ [][Next]_vars

\* The orchestrator at rest, while a submission is made.
RunIdle ==
    /\ pc = "idle" /\ exc = "none"
    /\ cmd = "ls" /\ bitstream_exists = TRUE /\ overlay_has_sh = FALSE
    /\ args_valid = TRUE
    /\ sigint = "default"
    /\ intr_key = ConventionalKey /\ old_intr_key = "none"
    /\ ld_path = Unset /\ old_ld_library_path = <<>>
    /\ mounted = FALSE /\ img_sh = "absent"
    /\ log_dirs = 0 /\ latest = 0
    /\ reads = 0 /\ returncode = -1
    /\ pre = [entered |-> FALSE, ld |-> Unset, intr |-> "none"]
    /\ started = <<>> /\ trace = <<>>

InitSubmit ==
    /\ RunIdle
    /\ TxtIdle
    /\ CfgIdle
    /\ RotIdle
    /\ dry_run \in BOOLEAN
    /\ verbosity \in 0..MaxVerbosity
    /\ s_pc = "build" /\ sbatch_cmd = <<>> /\ s_run = <<>>
    /\ proc = [rc |-> -1, out |-> <<>>, err |-> <<>>]
    /\ job = [slurm_job_id |-> -1, run_id |-> NilId]
    /\ s_exc = "none" /\ s_exc_data = NoData

NextSubmit ==
    \/ submit_build
    \/ submit_run_cmd
    \/ submit_exec
    \/ submit_parse

SpecSubmit == InitSubmit /\ [][NextSubmit]_vars

\* A configuration record is constructed from its keyword arguments, then
\* converted.
InitConfig ==
    /\ RunIdle /\ dry_run = FALSE
    /\ TxtIdle
    /\ SubIdle
    /\ RotIdle
    /\ c_pc = "new" /\ c_cls = "none"
    /\ c_in \in Kwargs
    /\ c_obj = NoObject /\ c_conv = NoObject /\ c_back = NoObject
    /\ c_err = NoError
    /\ uuids = 0

NextConfig ==
    \/ new_FireSlurmConfig
    \/ new_RunConfig
    \/ new_BatchConfig
    \/ from_run_config
    \/ from_batch_config
    \/ from_batch_config_back

SpecConfig == InitConfig /\ [][NextConfig]_vars

\* Two runs with the same base name share a log root that is missing,
\* empty, or holds the directory and the alias of an earlier run.
InitRotate ==
    /\ RunIdle /\ dry_run = FALSE
    /\ TxtIdle
    /\ SubIdle
    /\ CfgIdle
    /\ root_abs \in BOOLEAN
    /\ root_exists \in BOOLEAN
    /\ now = 0
    /\ dirs \in (IF root_exists THEN {{}, {composed_name(0)}} ELSE {{}})
    /\ link \in (IF dirs = {} THEN {Unset}
                 ELSE {Unset, SetTo(symlink_target(root_abs, composed_name(0)))})
    /\ files = {}
    /\ r_pc = [r \in Runs |-> "idle"]
    /\ r_made = [r \in Runs |-> -1]
    /\ r_ret = [r \in Runs |-> NoPath]
    /\ r_used = [r \in Runs |-> -1]
    /\ r_exc = [r \in Runs |-> "none"]
    /\ r_order = <<>>

NextRotate ==
    \/ tick
    \/ \E r \in Runs : update_log_files_by(r)
    \/ \E r \in Runs : run_simulation_open(r)

SpecRotate == InitRotate /\ [][NextRotate]_vars

\* A job script is built from a batch configuration and run by the
\* scheduler.
InitScript ==
    /\ RunIdle /\ dry_run = FALSE
    /\ SubIdle
    /\ CfgIdle
    /\ RotIdle
    /\ b_pc = "config"
    /\ b_cfg \in BatchConfigs
    /\ b_script = <<>>
    /\ b_ns = NoNamespace /\ b_run = NoRunConfig
    /\ u_pc = "idle" /\ u_stream = <<>> /\ u_rest = <<>>
    /\ u_term = <<>> /\ u_log = <<>>

NextScript ==
    \/ script_build
    \/ script_run

SpecScript == InitScript /\ [][NextScript]_vars

\* The output of a simulation is copied to the terminal and to uartlog.
InitUart ==
    /\ RunIdle /\ dry_run = FALSE
    /\ SubIdle
    /\ CfgIdle
    /\ RotIdle
    /\ b_pc = "idle" /\ b_cfg = NoBatchConfig /\ b_script = <<>>
    /\ b_ns = NoNamespace /\ b_run = NoRunConfig
    /\ u_pc = "stream"
    /\ u_stream \in Streams
    /\ u_rest = u_stream
    /\ u_term = <<>> /\ u_log = <<>>

NextUart ==
    \/ uart_read
    \/ uart_eof

SpecUart == InitUart /\ [][NextUart]_vars

\* ------------------------------------------------------------ properties

Happened(e) == \E i \in 1..Len(trace) : trace[i] = e
\* e happened, and f happened before it
After(e, f) ==
    \A i \in 1..Len(trace) :
        trace[i] = e => \E j \in 1..(i - 1) : trace[j] = f
Started(p) == \E i \in 1..Len(started) : started[i] = p

Ended == pc \in {"done", "failed"}
Restored == ld_path = pre.ld /\ intr_key = pre.intr

\* The steps of the critical section: flashing, the permission grant, the
\* overlay and the settle delay.
CriticalSteps ==
    {"flash_check", "flash_cmd", "perms_cmd", "overlay_mount", "overlay_copy",
     "overlay_umount", "settle"}
InInfrasetup == pc \in CriticalSteps \cup {"infra_exit"}
\* flash_fpga returned to infrasetup without an error
FlashReturned == Happened("perms") \/ Happened("log_perms")

\* C1: after run_simulation has ended, on any path, LD_LIBRARY_PATH and the
\* interrupt key hold the values they had immediately before Launching.
C1_RestoredOnEveryPath == (pre.entered /\ Ended) => Restored

\* C2: when the simulation exits non-zero, SimulationFailed reaches the
\* caller only after the library search path and the interrupt key have
\* both been restored.
C2_SimulationFailedAfterRestore ==
    (pc = "failed" /\ exc = "SimulationFailed") => Restored

\* C3: in every state where infrasetup has exited, normally or with an
\* error, SIGINT is unmasked.
C3_UnmaskedOnceInfrasetupExited ==
    (Happened("mask") /\ ~InInfrasetup) => sigint = "default"

C3_Witness ==
    /\ pc = "failed" /\ exc = "ExternalToolFailed"
    /\ Happened("flash_failed") /\ sigint = "default"

\* C4, as claimed: SIGINT is masked while flashing, the permission grant,
\* the overlay or the settle delay is in progress; the mask is installed
\* before the flash command is invoked, and it is removed only after the
\* settle delay has elapsed.
C4_MaskedUntilSettled ==
    /\ pc \in CriticalSteps => sigint = "ignored"
    /\ After("flash", "mask") /\ After("flash_failed", "mask")
    /\ After("log_flash", "mask")
    /\ After("unmask", "settle")

\* C4, amended: SIGINT is masked while flashing, the permission grant, the
\* overlay or the settle delay is in progress; the mask is installed before
\* the flash command is invoked; when no step fails it is removed only
\* after the settle delay has elapsed, and when a step fails it is removed
\* as the error leaves the section.
C4_MaskedWhileCritical ==
    /\ pc \in CriticalSteps => sigint = "ignored"
    /\ After("flash", "mask") /\ After("flash_failed", "mask")
    /\ After("log_flash", "mask")
    /\ (Happened("unmask") /\ exc = "none") => After("unmask", "settle")

C4_Witness == pc = "settle" /\ sigint = "ignored" /\ Happened("flash")

\* C5, as claimed: the overlay begins only after flash_fpga has returned,
\* the settle delay starts only after both have completed, and control
\* leaves the critical section only after the settle delay has elapsed.
C5_OrderedUntilSettled ==
    /\ (Happened("overlay_mount") \/ Happened("overlay_mount_failed"))
           => FlashReturned
    /\ After("settle", "overlay_umount")
    /\ Happened("settle") => FlashReturned
    /\ (Happened("mask") /\ ~InInfrasetup) => Happened("settle")

\* C5, amended: the overlay begins only after flash_fpga has returned, the
\* settle delay starts only after both have completed, and control leaves
\* the critical section without an error only after the settle delay has
\* elapsed (a failing step leaves it at once, without the delay).
C5_OrderedCriticalSection ==
    /\ (Happened("overlay_mount") \/ Happened("overlay_mount_failed"))
           => FlashReturned
    /\ After("settle", "overlay_umount")
    /\ Happened("settle") => FlashReturned
    /\ (Happened("mask") /\ ~InInfrasetup /\ exc = "none")
           => Happened("settle")
    /\ (Happened("mask") /\ ~InInfrasetup /\ ~Happened("settle"))
           => (pc = "failed" /\ exc \in {"MissingBitstream",
                                        "ExternalToolFailed", "CopyFailed"})

C5_Witness ==
    /\ pc = "sim_enter" /\ Happened("flash") /\ Happened("perms")
    /\ Happened("overlay_copy") /\ Happened("settle")

\* overlay_disk_image was entered / is inside its `with` block
OverlayEntered == Happened("overlay_mount") \/ Happened("overlay_mount_failed")
InOverlay == pc \in {"overlay_copy", "overlay_umount"}

\* C6: overlay_disk_image leaves the image unmounted on every exit path; a
\* failed copy is propagated to the caller, and only once the mount has
\* been released.
C6_UnmountedAfterOverlay ==
    /\ (OverlayEntered /\ ~InOverlay) => ~mounted
    /\ (Happened("overlay_copy_failed") /\ ~InOverlay)
           => (exc = "CopyFailed" /\ Happened("overlay_umount"))
    /\ (Happened("overlay_copy_failed") /\ ~InInfrasetup) => pc = "failed"

C6_Witness ==
    /\ pc = "failed" /\ exc = "CopyFailed" /\ ~mounted
    /\ Happened("overlay_copy_failed")

\* flash_fpga has made its check of the bitstream file
FlashFpgaRan == Happened("bitstream_missing") \/ Happened("bitstream_found")

\* C7: when the bitstream file does not exist, flash_fpga fails with
\* MissingBitstream and neither the flashing program nor the
\* permission-grant program is invoked.
C7_MissingBitstreamTouchesNothing ==
    (~bitstream_exists /\ FlashFpgaRan) =>
        /\ exc = "MissingBitstream"
        /\ ~Started("firesim-xvsecctl-flash-fpga")
        /\ ~Started("firesim-change-pcie-perms")

C7_Witness ==
    /\ ~bitstream_exists /\ ~dry_run /\ pc = "failed"
    /\ exc = "MissingBitstream"

\* flash_fpga has ended: it raised, or it went past the permission grant
FlashFpgaEnded ==
    \/ Happened("bitstream_missing")
    \/ Happened("flash_failed") \/ Happened("perms_failed")
    \/ FlashReturned

\* C8, as claimed: with dry-run set, flash_fpga executes neither the
\* flashing program nor the permission-grant program, and returns success.
C8_DryRunFlashSucceeds ==
    dry_run =>
        /\ ~Started("firesim-xvsecctl-flash-fpga")
        /\ ~Started("firesim-change-pcie-perms")
        /\ FlashFpgaEnded => FlashReturned

\* C8, amended: with dry-run set, flash_fpga executes neither program; when
\* the bitstream file exists it logs both and returns success, and when the
\* file is missing it fails with MissingBitstream.
C8_DryRunFlashOnlyLogs ==
    dry_run =>
        /\ ~Started("firesim-xvsecctl-flash-fpga")
        /\ ~Started("firesim-change-pcie-perms")
        /\ (FlashFpgaEnded /\ bitstream_exists) =>
               (FlashReturned /\ Happened("log_flash") /\ Happened("log_perms"))
        /\ (FlashFpgaEnded /\ ~bitstream_exists) =>
               (~FlashReturned /\ exc = "MissingBitstream")

C8_Witness ==
    /\ dry_run /\ bitstream_exists /\ pc = "overlay_mount"
    /\ Happened("log_flash") /\ Happened("log_perms")

\* C9: with dry-run set, a complete direct run starts no hardware-facing
\* external program: not the flasher, not the permission grant, not the
\* simulation driver.
C9_DryRunStartsNoHardwareProgram ==
    dry_run =>
        /\ ~Started("firesim-xvsecctl-flash-fpga")
        /\ ~Started("firesim-change-pcie-perms")
        /\ ~Started("FireSim-xilinx_vcu118")

Has(c, a) == \E i \in 1..Len(c) : c[i] = a
Submitted == s_pc \in {"parse", "s_done", "s_failed"}

\* C10: submit_slurm_job executes the submission command in dry-run mode
\* as well as in normal mode; the executed command carries --test-only in
\* dry-run mode, and does not carry it in normal mode.
C10_SubmissionAlwaysExecuted ==
    Submitted =>
        /\ Len(s_run) >= 1
        /\ \A i \in 1..Len(s_run) :
               /\ s_run[i][1] = Str("sbatch")
               /\ Has(s_run[i], Str("--test-only")) <=> dry_run

C10_Witness ==
    /\ s_pc = "s_done" /\ dry_run /\ Len(s_run) = 1
    /\ Has(s_run[1], Str("--test-only"))

\* C11: when the submission command exits non-zero, submit_slurm_job fails
\* with CalledProcessError (the spec's SubmissionFailed), the error carries
\* the captured stdout and stderr, and no JobInfo is returned.
C11_SubmissionFailedCarriesOutput ==
    (Submitted /\ proc.rc # 0) =>
        /\ s_pc = "s_failed" /\ s_exc = "CalledProcessError"
        /\ s_exc_data.output.set /\ s_exc_data.output.val = proc.out
        /\ s_exc_data.stderr.set /\ s_exc_data.stderr.val = proc.err
        /\ job.run_id = NilId /\ job.slurm_job_id = -1

C11_Witness ==
    /\ s_pc = "s_failed" /\ proc.rc = 1
    /\ proc.out = <<"x">> /\ proc.err = <<"sbatch: error">>
    /\ s_exc_data.stderr.val = <<"sbatch: error">>

\* The number a string of decimal digits writes, most significant first.
RECURSIVE Pow10(_)
Pow10(n) == IF n = 0 THEN 1 ELSE 10 * Pow10(n - 1)

RECURSIVE NumberWritten(_)
NumberWritten(ds) ==
    IF Len(ds) = 0 THEN 0
    ELSE DigitVal(Head(ds)) * Pow10(Len(ds) - 1) + NumberWritten(Tail(ds))

DigitStrings == UNION {[1..n -> Digits] : n \in 1..MaxOut}

Parsed == s_pc \in {"s_done", "s_failed"} /\ proc.rc = 0

\* C12: after a successful non-dry-run submission whose stdout is
\* "Submitted batch job <digits>", optionally followed by one newline, the
\* returned JobInfo's job id is exactly the number the digits write.
C12_JobIdIsTheNumberWritten ==
    \A ds \in DigitStrings :
        (/\ Parsed /\ ~dry_run
         /\ \/ proc.out = <<Prefix>> \o ds
            \/ proc.out = <<Prefix>> \o ds \o <<"\n">>)
        => (s_pc = "s_done" /\ job.slurm_job_id = NumberWritten(ds))

C12_Witness ==
    /\ s_pc = "s_done" /\ ~dry_run
    /\ proc.out = <<Prefix, "8", "\n">>
    /\ job.slurm_job_id = 8

Unmatched == Parsed /\ ~dry_run /\ ~job_match(proc.out)

\* C13: when the submission exits zero, dry-run is off and stdout does not
\* match the expected line, submit_slurm_job fails with a dedicated
\* UnparsableJobId error: it neither returns a JobInfo nor fails with an
\* unrelated error.
C13_UnmatchedOutputIsUnparsableJobId ==
    Unmatched => (s_pc = "s_failed" /\ s_exc = "UnparsableJobId")

\* C14: with dry-run set, submit_slurm_job never extracts a job id: for
\* any stdout of a zero-exit submission no error is raised and the returned
\* JobInfo holds the sentinel id -1.
C14_DryRunReturnsSentinel ==
    (Parsed /\ dry_run) =>
        (s_pc = "s_done" /\ s_exc = "none" /\ job.slurm_job_id = -1)

C14_Witness ==
    /\ s_pc = "s_done" /\ dry_run
    /\ proc.out = <<"x">> /\ ~job_match(proc.out)
    /\ job.slurm_job_id = -1

\* C15: every JobInfo submit_slurm_job returns, with a parsed job id or
\* with the dry-run sentinel, carries the run id of the BatchConfig it was
\* given.
C15_ReturnedJobCarriesRunId ==
    s_pc = "s_done" => job.run_id = RunId

IsVerbosityFlag(a) ==
    Len(a) >= 2 /\ a[1] = "-" /\ \A j \in 2..Len(a) : a[j] = "v"

IsOptionalFlag(a) == a = Str("--test-only") \/ IsVerbosityFlag(a)

\* C16: for every combination of verbosity and dry-run, the path of the
\* job script is the last element of the sbatch command line, after the
\* verbosity flag and the --test-only flag.
C16_JobFileIsLast ==
    s_pc # "build" =>
        /\ Len(sbatch_cmd) > 0
        /\ sbatch_cmd[Len(sbatch_cmd)] = Str(JobFile)
        /\ \A i \in 1..Len(sbatch_cmd) :
              IsOptionalFlag(sbatch_cmd[i]) => i < Len(sbatch_cmd)

C16_Witness ==
    /\ s_pc = "dry_log" /\ dry_run /\ verbosity = MaxVerbosity
    /\ Has(sbatch_cmd, Str("--test-only"))
    /\ \E i \in 1..Len(sbatch_cmd) : IsVerbosityFlag(sbatch_cmd[i])
    /\ sbatch_cmd[Len(sbatch_cmd)] = Str(JobFile)

\* The path fields of the keyword arguments that violate their predicate,
\* each with the message that names it.
PathViolations(kw) ==
    {m \in {"Simulator config directory invalid", "Overlay directory invalid",
            "Simulation disk image invalid",
            "Simulation program (kernel) invalid", "Log directory is invalid"} :
        \/ m = "Simulator config directory invalid" /\ ~validate_sim_config(kw)
        \/ m = "Overlay directory invalid" /\ ~validate_overlay(kw)
        \/ m = "Simulation disk image invalid" /\ ~validate_sim_img(kw)
        \/ m = "Simulation program (kernel) invalid" /\ ~validate_sim_prog(kw)
        \/ m = "Log directory is invalid" /\ ~validate_log_dir(kw)}

Constructed ==
    c_pc \in {"built", "converted", "convert_failed", "round_trip",
              "round_trip_failed"}
ConstructionFailed == c_pc = "failed"

\* C17: constructing a FireSlurmConfig, a RunConfig or a BatchConfig fails
\* whenever at least one path field violates its validation predicate, and
\* the failure names a violating field.
C17_InvalidPathFailsConstruction ==
    ((Constructed \/ ConstructionFailed) /\ PathViolations(c_in) # {}) =>
        (ConstructionFailed /\ c_err.msg \in PathViolations(c_in))

NameOk(n) == Len(n) > 0 /\ \A i \in 1..Len(n) : n[i] \in RunNameChars

\* C18: a RunConfig or a BatchConfig is constructed only if its run name is
\* non-empty and made of characters of [A-Za-z0-9._-] only.
C18_ConstructedOnlyWithValidRunName ==
    (Constructed /\ c_cls \in {"RunConfig", "BatchConfig"}) =>
        NameOk(c_in.run_name)

CmdEmpty(c) == c = Unset \/ c = SetTo(<<>>)

AllFieldsValid(kw) == PathViolations(kw) = {} /\ NameOk(kw.run_name)

\* C19: constructing a BatchConfig fails when the command is absent or the
\* empty string, and succeeds for every other command, a whitespace-only
\* one included, when the other fields are valid.
C19_BatchConfigNeedsACommand ==
    (c_cls = "BatchConfig" /\ (Constructed \/ ConstructionFailed)) =>
        /\ CmdEmpty(c_in.cmd) =>
              /\ ConstructionFailed
              /\ c_err = AssertionError("Batch runs must have a command")
        /\ (~CmdEmpty(c_in.cmd) /\ AllFieldsValid(c_in)) => Constructed

C19_Witness ==
    /\ c_pc = "built" /\ c_obj.cls = "BatchConfig"
    /\ c_obj.fields.cmd = SetTo(<<" ">>)
    /\ AllFieldsValid(c_in)

Converted ==
    c_pc \in {"converted", "convert_failed", "round_trip", "round_trip_failed"}

\* C20: converting a RunConfig to a BatchConfig fails exactly when its
\* command is empty or absent, and converting any constructed BatchConfig to
\* a RunConfig always succeeds.
C20_ConversionFailsOnlyWithoutCommand ==
    /\ (Converted /\ c_obj.cls = "RunConfig") =>
          (c_pc = "convert_failed" <=> CmdEmpty(c_obj.fields.cmd))
    /\ (Converted /\ c_obj.cls = "BatchConfig") => c_pc = "converted"

RoundTripped == c_pc \in {"round_trip", "round_trip_failed"}

\* C21: converting a RunConfig with a non-empty command to a BatchConfig
\* and back succeeds and yields a RunConfig equal to the original in every
\* field, the run id included, and the original record is left as it was
\* constructed.
C21_RoundTripPreservesRunConfig ==
    /\ (Converted /\ c_obj.cls = "RunConfig" /\ ~CmdEmpty(c_obj.fields.cmd))
          => c_pc # "convert_failed"
    /\ RoundTripped =>
          /\ c_pc = "round_trip"
          /\ c_back.cls = "RunConfig"
          /\ c_back.fields = c_obj.fields
          /\ c_back.fields.run_id = SetTo(1)
          /\ c_obj = [cls |-> "RunConfig",
                      fields |-> [c_in EXCEPT !.run_id = SetTo(1)]]

C21_Witness ==
    /\ c_pc = "round_trip"
    /\ c_obj.cls = "RunConfig" /\ c_conv.cls = "BatchConfig"
    /\ c_back = c_obj
    /\ c_obj.fields.cmd = SetTo(<<"l", "s">>)
    /\ c_obj.fields.run_id = SetTo(1)

Rotated(r) == r_pc[r] \in {"rotated", "launched", "open_failed"}

\* C22: after update_log_files is called twice in sequence on the same log
\* root with the same base name, both calls have succeeded, `latest`
\* resolves to the directory the second call made, and the directory the
\* first call made still exists.
C22_TwoRotationsKeepBoth ==
    Len(r_order) = 2 =>
        /\ \A r \in Runs : Rotated(r)
        /\ resolve(LatestPath, dirs, link) = r_made[r_order[2]]
        /\ r_made[r_order[1]] \in dirs

\* C23: update_log_files returns the path of the timestamped directory it
\* made, not the path of the `latest` alias.
C23_ReturnsTheRunDirectory ==
    \A r \in Runs : Rotated(r) => r_ret[r] = DirPath(r_made[r])

\* C29: when the composed directory name already exists under the log
\* root, update_log_files fails with FileExistsError (AlreadyExists), is
\* not tried again, and leaves `latest`, the run directories and their
\* files as they were.
C29_CollisionChangesNothing ==
    [][\A r \in Runs :
          (r_pc[r] = "idle" /\ r_pc'[r] # "idle"
           /\ composed_name(now) \in dirs)
          => /\ r_pc'[r] = "failed" /\ r_exc'[r] = "FileExistsError"
             /\ dirs' = dirs /\ link' = link /\ files' = files
             /\ Len(r_order') = Len(r_order) + 1]_vars

C29_Witness ==
    /\ r_pc["A"] = "rotated" /\ r_pc["B"] = "failed"
    /\ r_exc["B"] = "FileExistsError"
    /\ dirs = {r_made["A"]}
    /\ link = SetTo(symlink_target(root_abs, r_made["A"]))
    /\ r_order = <<"A", "B">>

\* C30: the directory a run's update_log_files made is the one its uartlog
\* is opened in, also when another run rotates the same log root between
\* this run's update_log_files and its simulation launch.
C30_WritesGoToOwnDirectory ==
    \A r \in Runs :
        /\ r_pc[r] # "open_failed"
        /\ r_pc[r] = "launched" => r_used[r] = r_made[r]

Launched == Happened("popen")

\* C24: in an interactive run (empty command) no firesim.sh is written or
\* copied, the firesim.sh of the image is removed, and when the simulation
\* is launched the image holds no /firesim.sh.
C24_InteractiveRunHasNoScript ==
    interactive_run(cmd) =>
        /\ ~Happened("write_sh") /\ ~Happened("copy_sh")
        /\ Launched => (Happened("unlink_sh") /\ img_sh = "absent")

\* C25: when validation of the run's inputs fails, the run aborts before
\* any side effect: nothing is written, mounted, rotated, flashed or
\* launched.
C25_InvalidInputsAbort ==
    ~args_valid =>
        /\ trace = <<>> /\ started = <<>>
        /\ ~mounted /\ latest = log_dirs

ImageSteps ==
    {"sh_mount", "sh_mount_failed", "unlink_sh", "copy_sh", "overlay_mount",
     "overlay_mount_failed", "overlay_copy", "overlay_copy_failed"}

\* C26: in every run the log directory is made before the image is first
\* mounted or written and before the simulation is launched.
C26_RotatedBeforeImageAndLaunch ==
    /\ \A e \in ImageSteps : After(e, "rotate")
    /\ After("popen", "rotate")

\* C27: in every run the interrupt key is remapped before LD_LIBRARY_PATH
\* is extended, and LD_LIBRARY_PATH is extended before the simulation
\* process is started.
C27_RemapThenExtendThenStart ==
    /\ After("extend_ld", "remap_key")
    /\ After("popen", "extend_ld") /\ After("popen_failed", "extend_ld")
    /\ Started("FireSim-xilinx_vcu118") =>
          (Happened("extend_ld") /\ Happened("remap_key"))

C27_Witness ==
    /\ Launched /\ Started("FireSim-xilinx_vcu118")
    /\ intr_key = FireSimKey
    /\ ld_path = SetTo(extend_path_new(pre.ld, SimConfigDir).val)

\* C28: on every path where both were changed, LD_LIBRARY_PATH is restored
\* before the interrupt key is restored.
C28_RestoredInMirrorOrder ==
    After("restore_key", "restore_ld")

\* The failures of log rotation, flashing, the permission grant, a mount
\* and a copy.
StepFailures ==
    {"sh_mount_failed", "rotate_failed", "bitstream_missing", "flash_failed",
     "perms_failed", "overlay_mount_failed", "overlay_copy_failed"}

\* What is still done once a step has failed: the failed step's own mount
\* is released and SIGINT is unmasked.
Releases == {"overlay_umount", "unmask"}

\* The position of event e in the trace, 0 when it has not happened.
Idx(e) == IF Happened(e) THEN CHOOSE i \in 1..Len(trace) : trace[i] = e ELSE 0

FlashedIdx == IF Happened("perms") THEN Idx("perms") ELSE Idx("log_perms")

\* C31: once a step of a run has failed no later step acts, the simulation
\* is not launched and the run does not reach done; done is reached only
\* after log rotation, flashing, overlaying, the settle delay, launching,
\* streaming and restoring have completed in that order.
C31_FailureStopsTheRun ==
    /\ \A i \in 1..Len(trace) :
          trace[i] \in StepFailures =>
              /\ \A j \in (i + 1)..Len(trace) : trace[j] \in Releases
              /\ ~Started("FireSim-xilinx_vcu118")
              /\ pc # "done"
    /\ pc = "done" =>
          /\ 0 < Idx("rotate") /\ Idx("rotate") < FlashedIdx
          /\ FlashedIdx < Idx("overlay_copy")
          /\ Idx("overlay_copy") < Idx("settle")
          /\ Idx("settle") < Idx("remap_key")
          /\ Idx("remap_key") < Idx("popen")
          /\ Idx("popen") < Idx("eof")
          /\ Idx("eof") < Idx("restore_ld")
          /\ Idx("restore_ld") < Idx("restore_key")

C31_Witness ==
    /\ pc = "failed" /\ exc = "ExternalToolFailed"
    /\ Happened("rotate") /\ Happened("flash_failed") /\ Happened("unmask")
    /\ ~Happened("overlay_mount") /\ ~Launched

\* C32: the read loop ends exactly when a read of the pseudo-terminal
\* returns no bytes or raises an I/O error; while reads keep returning data
\* the loop does not end.
C32_LoopEndsOnlyAtEndOfOutput ==
    (Launched /\ pc # "sim_stream") => Happened("eof")

\* C33: for every non-empty command, the job script hands the command to
\* direct-run as exactly one word whose value is the command unchanged,
\* single quotes and shell metacharacters included.
C33_CommandIsOneUnchangedWord ==
    (b_pc = "ran" /\ b_cfg.cmd # <<>>) =>
        /\ b_ns.ran
        /\ b_ns.cmd = <<b_cfg.cmd>>

\* C34: the direct-run invocation of the job script mirrors every field of
\* the BatchConfig that the run uses: the run started by the scheduler works
\* with the values of the submitted configuration.
C34_ScriptMirrorsTheConfig ==
    b_pc = "ran" =>
        /\ b_ns.ran
        /\ b_run.run_name = Str(b_cfg.run_name)
        /\ b_run.sim_config = Str(b_cfg.sim_config)
        /\ b_run.overlay_path = Str(b_cfg.overlay_path)
        /\ b_run.sim_img = Str(b_cfg.sim_img)
        /\ b_run.sim_prog = Str(b_cfg.sim_prog)
        /\ b_run.log_dir = Str(b_cfg.log_dir)
        /\ b_run.print_start = Str(b_cfg.print_start)
        /\ b_run.verbosity = b_cfg.verbosity
        /\ b_run.cmd = b_cfg.cmd

\* C39: for every output of the simulation and every way the reads cut it
\* into chunks, the text in uartlog equals the text on the terminal, and
\* both equal the whole output with each "\r\n" replaced by "\n".
C39_LogAndTerminalAreTheConvertedStream ==
    u_pc = "closed" =>
        /\ u_log = u_term
        /\ u_term = replace_crlf(u_stream)

\* C35: each call of submit_slurm_job executes the submission command
\* exactly once, in dry-run mode and in normal mode alike: nothing is
\* executed before subprocess.run, and one command, the one built, after it.
C35_SubmissionExecutedExactlyOnce ==
    /\ Len(s_run) <= 1
    /\ s_pc \in {"build", "dry_log", "exec"} => s_run = <<>>
    /\ Submitted => s_run = <<sbatch_cmd>>

C35_Witness ==
    /\ s_pc = "s_failed" /\ dry_run /\ proc.rc = 1
    /\ s_run = <<sbatch_cmd>>

\* C36: in a run with a non-empty command, when the simulation is launched
\* /firesim.sh on the image is the script generated from that command,
\* whatever the overlay tree holds, a firesim.sh of its own included.
C36_LaunchedWithGeneratedScript ==
    (Launched /\ ~interactive_run(cmd)) => img_sh = "generated"

\* C37: once extend_path has extended LD_LIBRARY_PATH and the old value it
\* returned has been assigned back, the variable is in the state it was in
\* before the extension, for every prior state, unset included.
C37_ExtendThenRestoreIsIdentity ==
    Happened("restore_ld") => ld_path = pre.ld

\* C38: in every state where the simulation image is mounted, SIGINT is
\* masked; this covers the mount that installs or removes firesim.sh as well
\* as the overlay mount.
C38_MountedOnlyWhileMasked ==
    mounted => sigint = "ignored"

====
